---- MODULE Spec2Model ----
(***************************************************************************)
(* Model of the paper intake and filing pipeline of taskmanager-tools:     *)
(* the dispatcher (src/src/papers/upload.py), the arXiv resolver           *)
(* (src/src/papers/arxiv_fetcher.py), the classifier                       *)
(* (src/src/papers/research_paper_util.py) and the reMarkable filing       *)
(* engine (src/src/remarkable/rmapi.py).                                   *)
(*                                                                         *)
(* One process per invocation of the command line tool.  Each step is one  *)
(* external call of the program (metadata fetch, download, oracle call,    *)
(* one rmapi subprocess) together with the Python code that follows it up  *)
(* to the next external call.  The remote store is shared by all           *)
(* invocations.                                                            *)
(*                                                                         *)
(* Strings are sequences of tokens.  A token stands for one character      *)
(* class or one fixed substring: "T", "a", "x" are alphanumeric, " " is a  *)
(* space, "!" is punctuation, ".pdf" is the extension, "papers",           *)
(* "Physics", ... are fixed words.                                         *)
(***************************************************************************)
EXTENDS Integers, Sequences, FiniteSets, TLC

\* Number of invocations of the tool in one behaviour.
MaxRuns == 2

\* The invocations that can be under way at the same time.
Procs == {1, 2}

\* Python None (a value no string is equal to).
NoneVal == <<"<None>">>

PDF == ".pdf"

\* Python truthiness of an optional string: None and "" are falsy.
Falsy(s) == s = NoneVal \/ s = <<>>

----------------------------------------------------------------------------
(* Strings *)

\* Python `needle in haystack` for two strings.
IsInfix(needle, hay) ==
    \E i \in 0..(Len(hay) - Len(needle)) :
        SubSeq(hay, i + 1, i + Len(needle)) = needle

\* Python s.replace(".pdf", ""): every occurrence of the extension is removed.
RECURSIVE ReplacePdf(_)
ReplacePdf(s) ==
    IF s = <<>> THEN <<>>
    ELSE IF Head(s) = PDF THEN ReplacePdf(Tail(s))
         ELSE <<Head(s)>> \o ReplacePdf(Tail(s))

\* pathlib Path(p).stem: the final suffix is dropped, if there is one.
Stem(name) ==
    IF Len(name) > 1 /\ name[Len(name)] = PDF
    THEN SubSeq(name, 1, Len(name) - 1)
    ELSE name

\* c.isalnum() or c in (" ", "-", "_")
IsSafeChar(c) == c \in {"T", "a", "x", " ", "-", "_"}

RECURSIVE KeepSafe(_)
KeepSafe(s) ==
    IF s = <<>> THEN <<>>
    ELSE IF IsSafeChar(Head(s)) THEN <<Head(s)>> \o KeepSafe(Tail(s))
         ELSE KeepSafe(Tail(s))

\* " ".join(s.split()): leading and trailing blanks go, runs become one blank.
RECURSIVE NormalizeSpace(_)
NormalizeSpace(s) ==
    IF s = <<>> THEN <<>>
    ELSE IF Head(s) = " "
         THEN NormalizeSpace(Tail(s))
         ELSE LET rest == NormalizeSpace(Tail(s))
              IN  IF Len(s) > 1 /\ s[2] = " " /\ rest # <<>>
                  THEN <<Head(s), " ">> \o rest
                  ELSE <<Head(s)>> \o rest

generate_formatted_filename(title) ==
    NormalizeSpace(KeepSafe(title)) \o <<PDF>>

----------------------------------------------------------------------------
(* The remote store behind the rmapi bridge *)

\* A remote path is a sequence of entry names; <<>> is the root "/".
\* Empty components ("/papers//x", a trailing "/") are dropped as by any
\* POSIX-like path resolution.
RECURSIVE Normalize(_)
Normalize(path) ==
    IF path = <<>> THEN <<>>
    ELSE IF Head(path) = <<>> THEN Normalize(Tail(path))
         ELSE <<Head(path)>> \o Normalize(Tail(path))

Papers == <<"papers">>
Physics == <<"Physics">>
Uncategorized == <<"Uncategorized">>

DirExists(st, path) == path = <<>> \/ path \in st.dirs

EntryExists(st, path) == path \in st.dirs \/ path \in st.files

Parent(path) == SubSeq(path, 1, Len(path) - 1)

Children(st, path) ==
    {q \in st.dirs \cup st.files : Len(q) = Len(path) + 1 /\ Parent(q) = path}

\* Standard output of `rmapi ls path`: one line "[d]\tname" or "[f]\tname"
\* per child.  The output is kept as the set of its lines; no string the
\* program searches for contains a line break.
LsStdout(st, path) ==
    {(IF q \in st.dirs THEN <<"[d]">> ELSE <<"[f]">>) \o q[Len(q)] :
        q \in Children(st, path)}

\* Python `needle in result.stdout` on that output ("" is in every string).
InStdout(needle, out) ==
    needle = <<>> \/ \E line \in out : IsInfix(needle, line)

----------------------------------------------------------------------------
(* The bridge: what one rmapi subprocess does to the store.  Every         *)
(* invocation ends in one of three ways: "ok" (exit status 0), "rejected"  *)
(* (non-zero: the store does not allow the operation) or "error"           *)
(* (non-zero: transport or authentication failure).  An operation whose    *)
(* target already exists is accepted by some bridges and rejected by       *)
(* others (rmapi rejects it), so both outcomes are possible.               *)

Outcomes(possible, collides) ==
    IF ~possible THEN {"rejected"}
    ELSE IF collides THEN {"ok", "rejected", "error"}
    ELSE {"ok", "error"}

LsOutcomes(st, path) == Outcomes(DirExists(st, path), FALSE)

MkdirOutcomes(st, path) ==
    Outcomes(path # <<>> /\ DirExists(st, Parent(path)), EntryExists(st, path))

MkdirEffect(st, path) == [st EXCEPT !.dirs = @ \cup {path}]

\* `rmapi put local dir`: the document is stored in dir under the name of
\* the local file without its extension.
PutTarget(name, dir) == dir \o <<Stem(name)>>

PutOutcomes(st, name, dir) ==
    Outcomes(DirExists(st, dir), EntryExists(st, PutTarget(name, dir)))

PutEffect(st, name, dir) == [st EXCEPT !.files = @ \cup {PutTarget(name, dir)}]

\* `rmapi mv src dst`: a destination that is a directory receives the entry
\* under its own name, any other destination is the new path of the entry.
MvTarget(st, src, dst) ==
    IF DirExists(st, dst) THEN dst \o <<src[Len(src)]>> ELSE dst

MvOutcomes(st, src, dst) ==
    Outcomes(/\ src \in st.files
             /\ DirExists(st, Parent(MvTarget(st, src, dst))),
             EntryExists(st, MvTarget(st, src, dst)))

MvEffect(st, src, dst) ==
    [st EXCEPT !.files = (@ \ {src}) \cup {MvTarget(st, src, dst)}]

----------------------------------------------------------------------------
(* Inputs *)

\* Command line arguments that parse as an arXiv identifier.
ArxivInputs == {<<"2301.12345">>}

\* Base names of the local files given on the command line.
LocalNames == {<<"a", PDF>>, <<"T", PDF>>, <<"T", PDF, PDF>>}

\* ArxivFetcher.parse_id: the identifier, or None.
parse_id(input_str) == IF input_str \in ArxivInputs THEN input_str ELSE NoneVal

\* Base name of the download target "/tmp/arxiv_<id>.pdf".
ArxivFileName == <<"x", PDF>>

\* What the metadata endpoint can yield: (title, category).
MetadataResults ==
    { <<NoneVal, NoneVal>>, <<(<<"T">>), Physics>>, <<(<<"T">>), NoneVal>> }

\* What the oracle call can yield.  "json" is a text block holding the
\* requested object; "malformed" is a text block json.loads or the key
\* lookup rejects; "nontext" is a first block that is no TextBlock; "error"
\* is an exception of the client.
OracleOutcomes == {"json", "malformed", "nontext", "error"}

\* The (classification, title) objects a well-formed answer can hold.
OracleAnswers == { <<Physics, (<<"T", "!">>)>> }

InitialStores ==
    { [dirs |-> d, files |-> {}] :
        d \in { {}, {<<(<<"my", "papers">>)>>} }
          \cup { {<<Papers>>} \cup c :
                   c \in SUBSET { <<Papers, Physics>>,
                                  <<Papers, (<<"Quantum", "Physics">>)>> } } }

VARIABLES
    args,               \* [p]: the parsed command line: paper, dry_run
    pc,                 \* [p]: position of invocation p
    paper_path,         \* [p]: base name of upload_paper's paper_path, or None
    title,              \* [p]: upload_paper's title
    classification,     \* [p]: upload_paper's classification
    output_file_name,   \* [p]: upload_paper's output_file_name
    ed,                 \* [p]: what ensure_directory returned
    ret,                \* [p]: what upload_paper returned
    success,            \* [p]: main's variable success
    exit_code,          \* [p]: exit status of the process
    raised,             \* [p]: the exception that ended the process
    calls,              \* [p]: the bridge invocations issued so far
    oracle,             \* [p]: number of oracle requests sent
    store,              \* the remote store
    store0,             \* [p]: the remote store when upload_paper was entered
    run,                \* number of invocations started so far
    prev,               \* what the invocation that ended last did
    metadata,           \* [p]: the (title, category) get_metadata returned
    sh                  \* one call of shorten_title_for_filename

vars == <<args, pc, paper_path, title, classification, output_file_name, ed,
          ret, success, exit_code, raised, calls, oracle, store, store0, run,
          prev, metadata, sh>>

\* No call of shorten_title_for_filename is under way.
NoShorten ==
    [pc |-> "idle", words |-> <<>>, max_words |-> 0, i |-> 0,
     key_words |-> <<>>]

\* get_metadata has not been called.
NoMetadata == <<NoneVal, NoneVal>>

Arguments == [paper : ArxivInputs \cup LocalNames, dry_run : BOOLEAN]

\* The record kept of an ended invocation; n = 0 when there was none.
\* kept_store: the invocation left the remote store as it found it;
\* upload_failed: one of its put and mv invocations ended with a non-zero
\* status.
NoRun ==
    [n |-> 0, dry_run |-> FALSE, paper_path |-> NoneVal,
     classification |-> NoneVal, output_file_name |-> NoneVal,
     ed |-> "-", ret |-> "-", kept_store |-> TRUE, upload_failed |-> FALSE]

Init ==
    /\ \E a \in Arguments : args = [p \in Procs |-> a]
    /\ pc = [p \in Procs |-> IF p = 1 THEN "main" ELSE "idle"]
    /\ paper_path = [p \in Procs |-> NoneVal]
    /\ title = [p \in Procs |-> NoneVal]
    /\ classification = [p \in Procs |-> NoneVal]
    /\ output_file_name = [p \in Procs |-> NoneVal]
    /\ ed = [p \in Procs |-> "-"]
    /\ ret = [p \in Procs |-> "-"]
    /\ success = [p \in Procs |-> "-"]
    /\ exit_code = [p \in Procs |-> -1]
    /\ raised = [p \in Procs |-> "-"]
    /\ calls = [p \in Procs |-> <<>>]
    /\ oracle = [p \in Procs |-> 0]
    /\ store \in InitialStores
    /\ store0 = [p \in Procs |-> store]
    /\ run = 1
    /\ prev = NoRun
    /\ metadata = [p \in Procs |-> NoMetadata]
    /\ sh = NoShorten

----------------------------------------------------------------------------
(* Steps of one invocation p *)

Goto(p, loc) == pc' = [pc EXCEPT ![p] = loc]

Call(p, op, a, b, outcome) ==
    calls' = [calls EXCEPT ![p] =
                 Append(@, [op |-> op, a |-> a, b |-> b, outcome |-> outcome])]

\* The invocation went through handle_arxiv_paper.
ViaArxiv(p) == parse_id(args[p].paper) # NoneVal

\* upload_paper returns r to its caller.  main keeps the value as success;
\* handle_arxiv_paper drops it and ends without a return statement, so that
\* main's success is None.
Return(p, r) ==
    /\ ret' = [ret EXCEPT ![p] = r]
    /\ success' = [success EXCEPT ![p] = IF ViaArxiv(p) THEN "None" ELSE r]
    /\ Goto(p, "exit")

\* An exception nothing catches: the interpreter prints the traceback and
\* the process ends with status 1.
Crash(p, exc) ==
    /\ raised' = [raised EXCEPT ![p] = exc]
    /\ exit_code' = [exit_code EXCEPT ![p] = 1]
    /\ Goto(p, "done")

\* main: ArxivFetcher(args.paper) either yields a handler or raises
\* InvalidArxivId, which routes to upload_paper(args.paper).
Main(p) ==
    /\ pc[p] = "main"
    /\ IF parse_id(args[p].paper) # NoneVal
       THEN /\ Goto(p, "get_metadata")
            /\ UNCHANGED paper_path
       ELSE /\ paper_path' = [paper_path EXCEPT ![p] = args[p].paper]
            /\ Goto(p, "upload_paper")
    /\ UNCHANGED <<sh, metadata, args, title, classification, output_file_name, ed, ret,
                   success, exit_code, raised, calls, oracle, store, store0,
                   run, prev>>

\* GetMetadata where a missing title routes to upload_paper(args.paper).
GetMetadata_FallsBack(p) ==
    /\ pc[p] = "get_metadata"
    /\ \E m \in MetadataResults :
          /\ metadata' = [metadata EXCEPT ![p] = m]
          /\ IF Falsy(m[1])
             THEN /\ paper_path' = [paper_path EXCEPT ![p] = args[p].paper]
                  /\ Goto(p, "upload_paper")
                  /\ UNCHANGED <<title, classification>>
             ELSE /\ title' = [title EXCEPT ![p] = m[1]]
                  /\ classification' = [classification EXCEPT ![p] = m[2]]
                  /\ Goto(p, "download")
                  /\ UNCHANGED paper_path
    /\ UNCHANGED <<sh, args, success, output_file_name, ed, ret, exit_code,
                   raised, calls, oracle, store, store0, run, prev>>

\* handle_arxiv_paper up to the download: a missing title ends it with False.
GetMetadata(p) ==
    /\ pc[p] = "get_metadata"
    /\ \E m \in MetadataResults :
          /\ metadata' = [metadata EXCEPT ![p] = m]
          /\ IF Falsy(m[1])
             THEN /\ success' = [success EXCEPT ![p] = "False"]
                  /\ Goto(p, "exit")
                  /\ UNCHANGED <<title, classification>>
             ELSE /\ title' = [title EXCEPT ![p] = m[1]]
                  /\ classification' = [classification EXCEPT ![p] = m[2]]
                  /\ Goto(p, "download")
                  /\ UNCHANGED success
    /\ UNCHANGED <<sh, args, paper_path, output_file_name, ed, ret, exit_code,
                   raised, calls, oracle, store, store0,
                   run, prev>>

\* download_paper returns the path or None; handle_arxiv_paper passes the
\* value on to upload_paper unchecked.
Download(p) ==
    /\ pc[p] = "download"
    /\ \E ok \in BOOLEAN :
          paper_path' = [paper_path EXCEPT ![p] =
                            IF ok THEN ArxivFileName ELSE NoneVal]
    /\ Goto(p, "upload_paper")
    /\ UNCHANGED <<sh, metadata, args, title, classification, output_file_name, ed, ret,
                   success, exit_code, raised, calls, oracle, store, store0,
                   run, prev>>

\* UploadPaper without the os.path.exists test.
UploadPaper_SkipsExistsTest(p) ==
    /\ pc[p] = "upload_paper"
    /\ store0' = [store0 EXCEPT ![p] = store]
    /\ IF Falsy(title[p]) \/ Falsy(classification[p])
       THEN /\ Goto(p, "analyze")
            /\ UNCHANGED output_file_name
       ELSE /\ output_file_name' =
                  [output_file_name EXCEPT ![p] =
                      generate_formatted_filename(title[p])]
            /\ Goto(p, "ls_root")
    /\ UNCHANGED <<sh, metadata, args, paper_path, title, classification, ed,
                   calls, oracle, store, run, prev, raised, exit_code, ret,
                   success>>

\* UploadPaper where only a missing title calls the classifier and a missing
\* classification becomes "Uncategorized".
UploadPaper_DefaultsCategory(p) ==
    /\ pc[p] = "upload_paper"
    /\ store0' = [store0 EXCEPT ![p] = store]
    /\ IF paper_path[p] = NoneVal
       THEN /\ Crash(p, "TypeError")
            /\ UNCHANGED <<ret, success, output_file_name, classification>>
       ELSE \E exists \in (IF ViaArxiv(p) THEN {TRUE} ELSE BOOLEAN) :
              IF ~exists
              THEN /\ Return(p, "False")
                   /\ UNCHANGED <<raised, exit_code, output_file_name,
                                  classification>>
              ELSE /\ IF Falsy(title[p])
                      THEN /\ Goto(p, "analyze")
                           /\ UNCHANGED <<output_file_name, classification>>
                      ELSE /\ output_file_name' =
                                 [output_file_name EXCEPT ![p] =
                                     generate_formatted_filename(title[p])]
                           /\ classification' =
                                 [classification EXCEPT ![p] =
                                     IF Falsy(@) THEN Uncategorized ELSE @]
                           /\ Goto(p, "ls_root")
                   /\ UNCHANGED <<raised, exit_code, ret, success>>
    /\ UNCHANGED <<sh, metadata, args, paper_path, title, ed, calls, oracle,
                   store, run, prev>>

\* upload_paper, entry: os.path.exists(paper_path), then the choice between
\* the classifier and the given title and classification.
UploadPaper(p) ==
    /\ pc[p] = "upload_paper"
    /\ store0' = [store0 EXCEPT ![p] = store]
    /\ IF paper_path[p] = NoneVal
       THEN /\ Crash(p, "TypeError")
            /\ UNCHANGED <<ret, success, output_file_name>>
       ELSE \E exists \in (IF ViaArxiv(p) THEN {TRUE} ELSE BOOLEAN) :
              IF ~exists
              THEN /\ Return(p, "False")
                   /\ UNCHANGED <<raised, exit_code, output_file_name>>
              ELSE /\ IF Falsy(title[p]) \/ Falsy(classification[p])
                      THEN /\ Goto(p, "analyze")
                           /\ UNCHANGED output_file_name
                      ELSE /\ output_file_name' =
                                 [output_file_name EXCEPT ![p] =
                                     generate_formatted_filename(title[p])]
                           /\ Goto(p, "ls_root")
                   /\ UNCHANGED <<raised, exit_code, ret, success>>
    /\ UNCHANGED <<sh, metadata, args, paper_path, title, classification, ed, calls, oracle,
                   store, run, prev>>

\* analyze_paper_with_claude(paper_path): the (classification, title) it
\* returns for one outcome of the oracle call.
Analysis(outcome, answer, path) ==
    CASE outcome = "json" -> answer
      [] outcome = "nontext" -> <<(<<>>), (<<>>)>>
      [] OTHER -> <<Uncategorized, Stem(path)>>

\* upload_paper, the classifier branch: a missing API key raises ValueError
\* before the request is sent.
Analyze(p) ==
    /\ pc[p] = "analyze"
    /\ \E key \in BOOLEAN :
          IF ~key
          THEN /\ Crash(p, "ValueError")
               /\ UNCHANGED <<title, classification, output_file_name, oracle>>
          ELSE \E outcome \in OracleOutcomes, answer \in OracleAnswers :
                 LET r == Analysis(outcome, answer, paper_path[p])
                     t == IF Falsy(title[p]) THEN r[2] ELSE title[p]
                     c == IF Falsy(classification[p]) THEN r[1]
                          ELSE classification[p]
                 IN  /\ title' = [title EXCEPT ![p] = t]
                     /\ classification' = [classification EXCEPT ![p] = c]
                     /\ output_file_name' =
                           [output_file_name EXCEPT ![p] =
                               generate_formatted_filename(t)]
                     /\ oracle' = [oracle EXCEPT ![p] = @ + 1]
                     /\ Goto(p, "ls_root")
                     /\ UNCHANGED <<raised, exit_code>>
    /\ UNCHANGED <<sh, metadata, args, paper_path, ed, ret, success, calls, store, store0,
                   run, prev>>

----------------------------------------------------------------------------
(* ensure_directory(classification), called by upload_paper *)

\* f"/papers/{classification}" and f"/papers/{classification}/"
CategoryDir(c) == Normalize(<<Papers, c>>)

\* f"/papers/{classification}/{name}"
RemotePath(c, name) == Normalize(<<Papers, c, name>>)

\* Listing that reads the error stream of the subprocess.
Listing_FromStderr(st, path, outcome) == {}

\* capture_output of a listing run with check=False: the exit status is not
\* looked at, and a failed listing has printed nothing on stdout.
Listing(st, path, outcome) == IF outcome = "ok" THEN LsStdout(st, path) ELSE {}

\* EnsureSucceeded without the dry_run test.
EnsureSucceeded_AlwaysLive(p) ==
    /\ ed' = [ed EXCEPT ![p] = "True"]
    /\ Goto(p, "put")
    /\ UNCHANGED <<ret, success>>

\* ensure_directory returned True: upload_paper goes on to the upload.  With
\* dry_run neither the put nor the mv is run and upload_paper returns True.
EnsureSucceeded(p) ==
    /\ ed' = [ed EXCEPT ![p] = "True"]
    /\ IF args[p].dry_run
       THEN Return(p, "True")
       ELSE /\ Goto(p, "put")
            /\ UNCHANGED <<ret, success>>

\* EnsureFailed where upload_paper does not test the result.
EnsureFailed_GoesOn(p) ==
    /\ ed' = [ed EXCEPT ![p] = "False"]
    /\ Goto(p, "put")
    /\ UNCHANGED <<ret, success>>

\* EnsureFailed where the mkdir runs with check=False.
EnsureFailed_Swallowed(p) == EnsureSucceeded(p)

\* ensure_directory caught CalledProcessError and returned False:
\* upload_paper returns False.
EnsureFailed(p) ==
    /\ ed' = [ed EXCEPT ![p] = "False"]
    /\ Return(p, "False")

\* rmapi ls /
LsRoot(p) ==
    /\ pc[p] = "ls_root"
    /\ \E o \in LsOutcomes(store, <<>>) :
          /\ Call(p, "ls", <<>>, <<>>, o)
          /\ IF ~InStdout(Papers, Listing(store, <<>>, o))
             THEN Goto(p, "mkdir_papers")
             ELSE Goto(p, "ls_papers")
    /\ UNCHANGED <<sh, metadata, args, paper_path, title, classification, output_file_name,
                   ed, ret, success, exit_code, raised, oracle, store, store0,
                   run, prev>>

\* rmapi mkdir /papers (check=True)
MkdirPapers(p) ==
    /\ pc[p] = "mkdir_papers"
    /\ \E o \in MkdirOutcomes(store, <<Papers>>) :
          /\ Call(p, "mkdir", <<Papers>>, <<>>, o)
          /\ IF o = "ok"
             THEN /\ store' = MkdirEffect(store, <<Papers>>)
                  /\ Goto(p, "ls_papers")
                  /\ UNCHANGED <<ed, ret, success>>
             ELSE /\ EnsureFailed(p)
                  /\ UNCHANGED store
    /\ UNCHANGED <<sh, metadata, args, paper_path, title, classification, output_file_name,
                   exit_code, raised, oracle, store0, run, prev>>

\* rmapi ls /papers
LsPapers(p) ==
    /\ pc[p] = "ls_papers"
    /\ \E o \in LsOutcomes(store, <<Papers>>) :
          /\ Call(p, "ls", <<Papers>>, <<>>, o)
          /\ IF ~InStdout(classification[p], Listing(store, <<Papers>>, o))
             THEN /\ Goto(p, "mkdir_cat")
                  /\ UNCHANGED <<ed, ret, success>>
             ELSE EnsureSucceeded(p)
    /\ UNCHANGED <<sh, metadata, args, paper_path, title, classification, output_file_name,
                   exit_code, raised, oracle, store, store0,
                   run, prev>>

\* MkdirCat that looks at the remote store again and issues no mkdir when the
\* directory is there by now.
MkdirCat_LooksAgain(p) ==
    /\ pc[p] = "mkdir_cat"
    /\ LET dir == CategoryDir(classification[p])
       IN  IF DirExists(store, dir)
           THEN /\ EnsureSucceeded(p)
                /\ UNCHANGED <<calls, store>>
           ELSE \E o \in MkdirOutcomes(store, dir) :
                  /\ Call(p, "mkdir", dir, <<>>, o)
                  /\ IF o = "ok"
                     THEN /\ store' = MkdirEffect(store, dir)
                          /\ EnsureSucceeded(p)
                     ELSE /\ EnsureFailed(p)
                          /\ UNCHANGED store
    /\ UNCHANGED <<sh, metadata, args, paper_path, title, classification, output_file_name,
                   exit_code, raised, oracle, store0, run, prev>>

\* rmapi mkdir /papers/<classification> (check=True)
MkdirCat(p) ==
    /\ pc[p] = "mkdir_cat"
    /\ LET dir == CategoryDir(classification[p])
       IN  \E o \in MkdirOutcomes(store, dir) :
              /\ Call(p, "mkdir", dir, <<>>, o)
              /\ IF o = "ok"
                 THEN /\ store' = MkdirEffect(store, dir)
                      /\ EnsureSucceeded(p)
                 ELSE /\ EnsureFailed(p)
                      /\ UNCHANGED store
    /\ UNCHANGED <<sh, metadata, args, paper_path, title, classification, output_file_name,
                   exit_code, raised, oracle, store0, run, prev>>

----------------------------------------------------------------------------
(* upload_paper after ensure_directory *)

\* original_name != output_file_name
NeedsRename(p) == paper_path[p] # output_file_name[p]

\* Put without the test of result.returncode.
Put_IgnoresStatus(p) ==
    /\ pc[p] = "put"
    /\ LET dir == CategoryDir(classification[p])
       IN  \E o \in PutOutcomes(store, paper_path[p], dir) :
              /\ Call(p, "put", <<paper_path[p]>>, dir, o)
              /\ store' = IF o = "ok" THEN PutEffect(store, paper_path[p], dir)
                          ELSE store
              /\ IF NeedsRename(p)
                 THEN /\ Goto(p, "mv")
                      /\ UNCHANGED <<ret, success>>
                 ELSE Return(p, "True")
    /\ UNCHANGED <<sh, metadata, args, paper_path, title, classification, output_file_name,
                   ed, exit_code, raised, oracle, store0, run, prev>>

\* rmapi put <paper_path> /papers/<classification>/ (check=False, the exit
\* status is tested)
Put(p) ==
    /\ pc[p] = "put"
    /\ LET dir == CategoryDir(classification[p])
       IN  \E o \in PutOutcomes(store, paper_path[p], dir) :
              /\ Call(p, "put", <<paper_path[p]>>, dir, o)
              /\ IF o = "ok"
                 THEN /\ store' = PutEffect(store, paper_path[p], dir)
                      /\ IF NeedsRename(p)
                         THEN /\ Goto(p, "mv")
                              /\ UNCHANGED <<ret, success>>
                         ELSE Return(p, "True")
                 ELSE /\ Return(p, "False")
                      /\ UNCHANGED store
    /\ UNCHANGED <<sh, metadata, args, paper_path, title, classification, output_file_name,
                   ed, exit_code, raised, oracle, store0, run, prev>>

\* Mv run with check=False.
Mv_Unchecked(p) ==
    /\ pc[p] = "mv"
    /\ LET src == RemotePath(classification[p], ReplacePdf(paper_path[p]))
           dst == RemotePath(classification[p],
                             ReplacePdf(output_file_name[p]))
       IN  \E o \in MvOutcomes(store, src, dst) :
              /\ Call(p, "mv", src, dst, o)
              /\ store' = IF o = "ok" THEN MvEffect(store, src, dst) ELSE store
              /\ Return(p, "True")
    /\ UNCHANGED <<sh, metadata, args, paper_path, title, classification, output_file_name,
                   ed, exit_code, raised, oracle, store0, run, prev>>

\* rmapi mv /papers/<c>/<original> /papers/<c>/<formatted> (check=True)
Mv(p) ==
    /\ pc[p] = "mv"
    /\ LET src == RemotePath(classification[p], ReplacePdf(paper_path[p]))
           dst == RemotePath(classification[p],
                             ReplacePdf(output_file_name[p]))
       IN  \E o \in MvOutcomes(store, src, dst) :
              /\ Call(p, "mv", src, dst, o)
              /\ IF o = "ok"
                 THEN /\ store' = MvEffect(store, src, dst)
                      /\ Return(p, "True")
                 ELSE /\ Return(p, "False")
                      /\ UNCHANGED store
    /\ UNCHANGED <<sh, metadata, args, paper_path, title, classification, output_file_name,
                   ed, exit_code, raised, oracle, store0, run, prev>>

\* main: sys.exit(0 if success else 1)
SysExit(p) ==
    /\ pc[p] = "exit"
    /\ exit_code' = [exit_code EXCEPT ![p] =
                        IF success[p] = "True" THEN 0 ELSE 1]
    /\ Goto(p, "done")
    /\ UNCHANGED <<sh, metadata, args, paper_path, title, classification, output_file_name,
                   ed, ret, success, raised, calls, oracle, store, store0,
                   run, prev>>

\* The tool is run again on the same paper, with or without --dry-run,
\* after invocation p has ended.
Restart(p) ==
    /\ pc[p] = "done"
    /\ run < MaxRuns
    /\ run' = run + 1
    /\ prev' = [n |-> run, dry_run |-> args[p].dry_run,
                paper_path |-> paper_path[p],
                classification |-> classification[p],
                output_file_name |-> output_file_name[p],
                ed |-> ed[p], ret |-> ret[p],
                kept_store |-> (store = store0[p]),
                upload_failed |->
                    \E i \in DOMAIN calls[p] :
                        /\ calls[p][i].op \in {"put", "mv"}
                        /\ calls[p][i].outcome # "ok"]
    /\ \E a \in Arguments :
          /\ a.paper = args[p].paper
          /\ args' = [args EXCEPT ![p] = a]
    /\ Goto(p, "main")
    /\ paper_path' = [paper_path EXCEPT ![p] = NoneVal]
    /\ title' = [title EXCEPT ![p] = NoneVal]
    /\ classification' = [classification EXCEPT ![p] = NoneVal]
    /\ output_file_name' = [output_file_name EXCEPT ![p] = NoneVal]
    /\ ed' = [ed EXCEPT ![p] = "-"]
    /\ ret' = [ret EXCEPT ![p] = "-"]
    /\ success' = [success EXCEPT ![p] = "-"]
    /\ exit_code' = [exit_code EXCEPT ![p] = -1]
    /\ raised' = [raised EXCEPT ![p] = "-"]
    /\ calls' = [calls EXCEPT ![p] = <<>>]
    /\ oracle' = [oracle EXCEPT ![p] = 0]
    /\ store0' = [store0 EXCEPT ![p] = store]
    /\ metadata' = [metadata EXCEPT ![p] = NoMetadata]
    /\ UNCHANGED <<store, sh>>

\* One step of invocation p.
Run(p) ==
    \/ Main(p)
    \/ GetMetadata(p)
    \/ Download(p)
    \/ UploadPaper(p)
    \/ Analyze(p)
    \/ LsRoot(p)
    \/ MkdirPapers(p)
    \/ LsPapers(p)
    \/ MkdirCat(p)
    \/ Put(p)
    \/ Mv(p)
    \/ SysExit(p)

Step(p) == Run(p) \/ Restart(p)

\* One invocation at a time: the tool is run, and run again when it has ended.
Next == Step(1)

Spec == Init /\ [][Next]_vars

\* Two invocations of the tool started together on the same remote store:
\* each runs its own rmapi processes, and nothing orders them.  The store
\* holds /papers.
InitConc ==
    /\ \E a \in Arguments : args = [p \in Procs |-> a]
    /\ pc = [p \in Procs |-> "main"]
    /\ paper_path = [p \in Procs |-> NoneVal]
    /\ title = [p \in Procs |-> NoneVal]
    /\ classification = [p \in Procs |-> NoneVal]
    /\ output_file_name = [p \in Procs |-> NoneVal]
    /\ ed = [p \in Procs |-> "-"]
    /\ ret = [p \in Procs |-> "-"]
    /\ success = [p \in Procs |-> "-"]
    /\ exit_code = [p \in Procs |-> -1]
    /\ raised = [p \in Procs |-> "-"]
    /\ calls = [p \in Procs |-> <<>>]
    /\ oracle = [p \in Procs |-> 0]
    /\ store \in {s \in InitialStores : DirExists(s, <<Papers>>)}
    /\ store0 = [p \in Procs |-> store]
    /\ run = 1
    /\ prev = NoRun
    /\ metadata = [p \in Procs |-> NoMetadata]
    /\ sh = NoShorten

NextConc == \E p \in Procs : Run(p)

SpecConc == InitConc /\ [][NextConc]_vars

----------------------------------------------------------------------------
(* shorten_title_for_filename, run on its own.  A word is a sequence of
   characters and a title is given by title.split(), its list of words. *)

MaxTitleWords == 4
MaxMaxWords == 4

\* str.lower()
Lower(c) == IF c = "The" THEN "the" ELSE c

LowerWord(w) == [k \in DOMAIN w |-> Lower(w[k])]

\* The characters re.sub(r"[^\w\s-]", "", word) keeps.
IsWordChar(c) == c \in {"the", "The", "deep", "net", "-", "_"}

RECURSIVE CleanWord(_)
CleanWord(w) ==
    IF w = <<>> THEN <<>>
    ELSE IF IsWordChar(Head(w)) THEN <<Head(w)>> \o CleanWord(Tail(w))
         ELSE CleanWord(Tail(w))

stop_words ==
    { <<c>> : c \in {"a", "an", "the", "of", "for", "and", "or", "but", "in",
                     "on", "at", "to", "from", "by", "with", "via", "using",
                     "through"} }

TitleWords ==
    {<<"the">>, <<"The">>, <<"deep">>, <<"net">>, <<"net", "!">>, <<"!">>}

Titles == UNION {[1..n -> TitleWords] : n \in 0..MaxTitleWords}

\* Everything but the state of shorten_title_for_filename.
others ==
    <<args, pc, paper_path, title, classification, output_file_name, ed, ret,
      success, exit_code, raised, calls, oracle, store, store0, run, prev,
      metadata>>

InitShorten ==
    /\ \E t \in Titles, m \in 1..MaxMaxWords :
          sh = [pc |-> "first", words |-> t, max_words |-> m, i |-> 1,
                key_words |-> <<>>]
    /\ args = [p \in Procs |-> [paper |-> <<"a", PDF>>, dry_run |-> FALSE]]
    /\ pc = [p \in Procs |-> "idle"]
    /\ paper_path = [p \in Procs |-> NoneVal]
    /\ title = [p \in Procs |-> NoneVal]
    /\ classification = [p \in Procs |-> NoneVal]
    /\ output_file_name = [p \in Procs |-> NoneVal]
    /\ ed = [p \in Procs |-> "-"]
    /\ ret = [p \in Procs |-> "-"]
    /\ success = [p \in Procs |-> "-"]
    /\ exit_code = [p \in Procs |-> -1]
    /\ raised = [p \in Procs |-> "-"]
    /\ calls = [p \in Procs |-> <<>>]
    /\ oracle = [p \in Procs |-> 0]
    /\ store = [dirs |-> {}, files |-> {}]
    /\ store0 = [p \in Procs |-> store]
    /\ run = 1
    /\ prev = NoRun
    /\ metadata = [p \in Procs |-> NoMetadata]

\* One round of the first loop: keep the cleaned word when it is no stop word
\* and not empty, and leave the loop at max_words words.
ShortenFirst ==
    /\ sh.pc = "first"
    /\ IF sh.i > Len(sh.words)
       THEN sh' = [sh EXCEPT !.pc = "check"]
       ELSE LET clean_word == CleanWord(sh.words[sh.i])
            IN  IF LowerWord(clean_word) \notin stop_words
                   /\ clean_word # <<>>
                THEN LET kw == Append(sh.key_words, clean_word)
                     IN  IF Len(kw) >= sh.max_words
                         THEN sh' = [sh EXCEPT !.key_words = kw,
                                               !.pc = "check"]
                         ELSE sh' = [sh EXCEPT !.key_words = kw,
                                               !.i = @ + 1]
                ELSE sh' = [sh EXCEPT !.i = @ + 1]
    /\ UNCHANGED others

\* if len(key_words) < 3 and len(words) > len(key_words)
ShortenCheck ==
    /\ sh.pc = "check"
    /\ IF Len(sh.key_words) < 3 /\ Len(sh.words) > Len(sh.key_words)
       THEN sh' = [sh EXCEPT !.pc = "refill", !.i = 1]
       ELSE sh' = [sh EXCEPT !.pc = "done"]
    /\ UNCHANGED others

\* One round of the second loop: keep the cleaned word when it is not empty
\* and not kept yet, and leave the loop at 4 words.
ShortenRefill ==
    /\ sh.pc = "refill"
    /\ IF sh.i > Len(sh.words)
       THEN sh' = [sh EXCEPT !.pc = "done"]
       ELSE LET clean_word == CleanWord(sh.words[sh.i])
            IN  IF clean_word # <<>>
                   /\ \A k \in DOMAIN sh.key_words :
                          sh.key_words[k] # clean_word
                THEN LET kw == Append(sh.key_words, clean_word)
                     IN  IF Len(kw) >= 4
                         THEN sh' = [sh EXCEPT !.key_words = kw,
                                               !.pc = "done"]
                         ELSE sh' = [sh EXCEPT !.key_words = kw,
                                               !.i = @ + 1]
                ELSE sh' = [sh EXCEPT !.i = @ + 1]
    /\ UNCHANGED others

NextShorten == ShortenFirst \/ ShortenCheck \/ ShortenRefill

SpecShorten == InitShorten /\ [][NextShorten]_vars

----------------------------------------------------------------------------
(* Properties *)

\* Positions in the log of invocation p that hold an operation of ops.
Issued(p, ops) == {i \in DOMAIN calls[p] : calls[p][i].op \in ops}

Failed(call) == call.outcome # "ok"

\* C1: the exit code of a live run is 0 exactly when the chosen path filed
\* the document (upload_paper returned True), and 1 otherwise; a run by arXiv
\* identifier whose steps all succeed exits with 0.
C1_ExitCodeTellsFiling ==
    \A p \in Procs :
        (pc[p] = "done" /\ ~args[p].dry_run)
            => (exit_code[p] = 0 <=> ret[p] = "True")

\* C2: a run with dry_run issues no put and no mv.
C2_DryRunIssuesNoPutNoMv ==
    \A p \in Procs : args[p].dry_run => Issued(p, {"put", "mv"}) = {}

\* A dry run got through upload_paper at the place where a live run would
\* have uploaded and renamed.
C2_Witness ==
    /\ pc[1] = "done"
    /\ args[1].dry_run
    /\ ret[1] = "True"
    /\ NeedsRename(1)

\* The invocation that ended last and the one that followed it were given
\* the same local file, category and filename.
SameInputs ==
    /\ prev.paper_path = paper_path[1]
    /\ prev.classification = classification[1]
    /\ prev.output_file_name = output_file_name[1]

\* A dry run and a live run of upload_paper, one after the other, from the
\* same remote state and with the same result of ensure_directory.
DryAndLive ==
    /\ prev.n > 0
    /\ pc[1] = "done"
    /\ prev.dry_run # args[1].dry_run
    /\ SameInputs
    /\ prev.kept_store
    /\ prev.ed \in {"True", "False"}
    /\ prev.ed = ed[1]

DryRet == IF args[1].dry_run THEN ret[1] ELSE prev.ret

LiveRet == IF args[1].dry_run THEN prev.ret ELSE ret[1]

\* A put or mv of the live run ended with a non-zero status.
LiveUploadFailed ==
    IF args[1].dry_run THEN prev.upload_failed
    ELSE \E i \in Issued(1, {"put", "mv"}) : Failed(calls[1][i])

\* C3 as claimed: the dry run returns what the live run returns, also when
\* the put or the mv of the live run fails.
C3_DryRunReturnsLiveValue == DryAndLive => DryRet = LiveRet

\* C3 as amended: the dry run returns what a live run returns whose put and
\* mv succeed; when the put or the mv of the live run fails, the live run
\* returns False and the dry run True.
C3_DryRunReturnsValueOfUnfailedLive ==
    DryAndLive =>
        IF LiveUploadFailed
        THEN LiveRet = "False" /\ DryRet = "True"
        ELSE DryRet = LiveRet

C3_Witness == DryAndLive /\ LiveUploadFailed

\* C4: a dry run leaves the remote store (directories and files) as it was.
C4_DryRunKeepsStore ==
    \A p \in Procs : args[p].dry_run => store = store0[p]

\* C5: a put is issued only after ensure_directory returned True (before it
\* only listings and mkdirs that succeeded), a mv only right after a put
\* that succeeded; when ensure_directory returns False, upload_paper returns
\* False and neither put nor mv is issued.
C5_EnsureThenPutThenMv ==
    \A p \in Procs :
        /\ \A i \in Issued(p, {"put"}) :
              /\ ed[p] = "True"
              /\ \A j \in 1..(i - 1) :
                    /\ calls[p][j].op \in {"ls", "mkdir"}
                    /\ calls[p][j].op = "mkdir" => ~Failed(calls[p][j])
        /\ \A i \in Issued(p, {"mv"}) :
              /\ i > 1
              /\ calls[p][i - 1].op = "put"
              /\ ~Failed(calls[p][i - 1])
        /\ ed[p] = "False" =>
              /\ ret[p] = "False"
              /\ Issued(p, {"put", "mv"}) = {}

C5_Witness == pc[1] = "done" /\ Issued(1, {"mv"}) # {}

\* C6: when the mv fails after a put that succeeded, upload_paper returns
\* False, nothing is invoked after the mv, and the file is in
\* /papers/<category> under its original base name.
C6_FailedRenameIsFinal ==
    \A p \in Procs :
        \A i \in Issued(p, {"mv"}) :
            Failed(calls[p][i]) =>
                /\ i = Len(calls[p])
                /\ ret[p] = "False"
                /\ pc[p] \in {"exit", "done"}
                /\ PutTarget(paper_path[p], CategoryDir(classification[p]))
                       \in store.files

C6_Witness ==
    /\ pc[1] = "done"
    /\ \E i \in Issued(1, {"mv"}) : Failed(calls[1][i])

\* The store as the listing of /papers saw it: the store at entry, with
\* /papers when the invocation made it.
StoreAtLsPapers(p) ==
    IF Len(calls[p]) >= 2 /\ calls[p][2].op = "mkdir" /\ ~Failed(calls[p][2])
    THEN MkdirEffect(store0[p], <<Papers>>)
    ELSE store0[p]

\* Position of the listing of /papers in the log (0: not issued yet).
LsPapersAt(p) ==
    IF Len(calls[p]) >= 2 /\ calls[p][2].op = "ls" THEN 2
    ELSE IF Len(calls[p]) >= 3 /\ calls[p][3].op = "ls" THEN 3
    ELSE 0

\* What a listing printed: nothing when it failed.
Printed(call, out) == IF Failed(call) THEN {} ELSE out

ListedExactly(p) ==
    /\ LsPapersAt(p) > 0
    /\ ~Failed(calls[p][1])
    /\ ~Failed(calls[p][LsPapersAt(p)])
    /\ EntryExists(store0[p], <<Papers>>)
    /\ EntryExists(store0[p], <<Papers, classification[p]>>)

C8_NoMkdirWhenListed ==
    \A p \in Procs :
        ListedExactly(p) => (ed[p] = "True" /\ Issued(p, {"mkdir"}) = {})

C8_Witness == ListedExactly(1) /\ pc[1] = "done"

\* C9: upload_paper run twice in sequence with the same local file, category
\* and filename returns True both times, and the second run adds no entry to
\* the store and issues no mkdir (no bridge invocation of the second run
\* meets a transport error).
C9_SecondRunChangesNothing ==
    ( /\ prev.n > 0
      /\ pc[1] = "done"
      /\ ~prev.dry_run /\ ~args[1].dry_run
      /\ SameInputs
      /\ prev.ret = "True"
      /\ ret[1] \in {"True", "False"}
      /\ \A i \in DOMAIN calls[1] : calls[1][i].outcome # "error" )
    => /\ ret[1] = "True"
       /\ store = store0[1]
       /\ Issued(1, {"mkdir"}) = {}

\* C10: the classifier never raises and answers every outcome other than a
\* well-formed object with the fallback ("Uncategorized", file stem).
C10_ClassifierNeverFailsOutward ==
    \A p \in Procs :
        /\ raised[p] # "ValueError"
        /\ (oracle[p] > 0 /\ ~ViaArxiv(p)) =>
              \/ <<classification[p], title[p]>> \in OracleAnswers
              \/ <<classification[p], title[p]>>
                     = <<Uncategorized, Stem(paper_path[p])>>

\* get_metadata of invocation p returned no title.
NullTitle(p) ==
    /\ ViaArxiv(p)
    /\ pc[p] \notin {"idle", "main", "get_metadata"}
    /\ Falsy(metadata[p][1])

\* C11 as claimed: when the input is no identifier, or is one whose metadata
\* has no title, upload_paper is called with the raw input as path and
\* without title and classification.
C11_FallsBackToLocalPath ==
    \A p \in Procs :
        /\ (pc[p] = "done" /\ (~ViaArxiv(p) \/ NullTitle(p)))
              => paper_path[p] = args[p].paper
        /\ (pc[p] = "upload_paper" /\ (~ViaArxiv(p) \/ NullTitle(p)))
              => (title[p] = NoneVal /\ classification[p] = NoneVal)

\* C11 as amended: when the input is no identifier, upload_paper is called
\* with the raw input as path and without title and classification; when the
\* metadata has no title, the run ends with exit code 1 and upload_paper is
\* not called: no bridge invocation, no oracle request.
C11_FallsBackOnlyWhenNoIdentifier ==
    \A p \in Procs :
        /\ (~ViaArxiv(p) /\ pc[p] \notin {"idle", "main"})
              => paper_path[p] = args[p].paper
        /\ (~ViaArxiv(p) /\ pc[p] = "upload_paper")
              => (title[p] = NoneVal /\ classification[p] = NoneVal)
        /\ NullTitle(p) =>
              /\ pc[p] \in {"exit", "done"}
              /\ paper_path[p] = NoneVal
              /\ ret[p] = "-"
              /\ success[p] = "False"
              /\ calls[p] = <<>>
              /\ oracle[p] = 0
              /\ pc[p] = "done" => exit_code[p] = 1

C11_Witness == NullTitle(1) /\ pc[1] = "done"

\* download_paper of invocation p returned None.
DownloadFailed(p) ==
    /\ ViaArxiv(p)
    /\ pc[p] \notin {"idle", "main", "get_metadata", "download"}
    /\ ~Falsy(metadata[p][1])
    /\ paper_path[p] = NoneVal

\* C12: when the download fails, the run ends with exit code 1 and makes no
\* bridge invocation and no oracle request.
C12_FailedDownloadAborts ==
    \A p \in Procs :
        DownloadFailed(p) =>
            /\ calls[p] = <<>>
            /\ oracle[p] = 0
            /\ pc[p] \in {"upload_paper", "exit", "done"}
            /\ pc[p] = "done" => exit_code[p] = 1

C12_Witness == DownloadFailed(1) /\ pc[1] = "done"

\* Invocation p got metadata with a title.
HasMetadata(p) ==
    /\ ViaArxiv(p)
    /\ pc[p] \notin {"idle", "main", "get_metadata"}
    /\ ~Falsy(metadata[p][1])

\* C13 as claimed: with a metadata title, the category filed under is the
\* metadata category, or "Uncategorized" when there is none, and no oracle
\* request is sent.
C13_ArxivPathNeverClassifies ==
    \A p \in Procs :
        HasMetadata(p) =>
            /\ oracle[p] = 0
            /\ ed[p] # "-" =>
                  classification[p] = IF Falsy(metadata[p][2])
                                      THEN Uncategorized
                                      ELSE metadata[p][2]

\* C13 as amended: with a metadata title and a metadata category, the
\* category filed under is the metadata category and no oracle request is
\* sent; without a metadata category the classifier is called before the
\* first bridge invocation and its classification is the category filed
\* under.
C13_ArxivPathClassifiesWithoutCategory ==
    \A p \in Procs :
        HasMetadata(p) =>
            IF ~Falsy(metadata[p][2])
            THEN /\ oracle[p] = 0
                 /\ classification[p] = metadata[p][2]
            ELSE (calls[p] # <<>> \/ ed[p] # "-") =>
                    /\ oracle[p] = 1
                    /\ classification[p] \in
                          {a[1] : a \in OracleAnswers}
                              \cup {Uncategorized, <<>>}

C13_Witness ==
    /\ HasMetadata(1)
    /\ Falsy(metadata[1][2])
    /\ oracle[1] = 1
    /\ pc[1] = "done"
    /\ ret[1] = "True"

\* C14: every bridge invocation that ends with a non-zero status makes
\* upload_paper return False; a listing that fails makes ensure_directory
\* return False.
C14_EveryBridgeFailureFails ==
    \A p \in Procs :
        /\ (pc[p] \in {"exit", "done"}
              /\ \E i \in DOMAIN calls[p] : Failed(calls[p][i]))
              => ret[p] = "False"
        /\ (ed[p] # "-" /\ \E i \in Issued(p, {"ls"}) : Failed(calls[p][i]))
              => ed[p] = "False"

\* C15: in a live run whose put succeeded, a mv is issued exactly when the
\* uploaded base name and the wanted filename differ without their
\* extensions; it goes from /papers/<category>/<base name without extension>
\* to /papers/<category>/<filename without extension>, which differ.
C15_RenameBetweenStems ==
    \A p \in Procs :
        ( /\ pc[p] \in {"exit", "done"}
          /\ \E i \in Issued(p, {"put"}) : ~Failed(calls[p][i]) )
        => /\ Issued(p, {"mv"}) # {}
                 <=> Stem(paper_path[p]) # Stem(output_file_name[p])
           /\ \A i \in Issued(p, {"mv"}) :
                 /\ calls[p][i].a
                       = RemotePath(classification[p], Stem(paper_path[p]))
                 /\ calls[p][i].b
                       = RemotePath(classification[p],
                                    Stem(output_file_name[p]))
                 /\ calls[p][i].a # calls[p][i].b

Least(a, b) == IF a < b THEN a ELSE b

\* C16: the shortened title has at most max_words words and, when the title
\* has words, at least min(3, number of words of the title).
C16_BetweenThreeAndMaxWords ==
    sh.pc = "done" =>
        /\ Len(sh.key_words) <= sh.max_words
        /\ sh.words # <<>> =>
              Len(sh.key_words) >= Least(3, Len(sh.words))

\* Invocation p listed /papers, did not find its category in the listing and
\* issued mkdir for it.
ListedThenCreated(p) ==
    /\ LsPapersAt(p) > 0
    /\ ~Failed(calls[p][LsPapersAt(p)])
    /\ \E i \in Issued(p, {"mkdir"}) :
          /\ i > LsPapersAt(p)
          /\ calls[p][i].a = CategoryDir(classification[p])

\* C17: an invocation that did not find /papers/<category> in its listing
\* issues mkdir for it as its next rmapi call, whatever another invocation
\* did to the remote store meanwhile.
C17_NothingSerialisesMkdir ==
    [][\A p \in Procs :
          (pc[p] = "mkdir_cat" /\ pc'[p] # "mkdir_cat") =>
              /\ Len(calls'[p]) = Len(calls[p]) + 1
              /\ calls'[p][Len(calls'[p])].op = "mkdir"
              /\ calls'[p][Len(calls'[p])].a = CategoryDir(classification[p])
      ]_vars

\* Both invocations file under the same category, which was absent at the
\* start; both listed /papers without seeing it and both issued mkdir for it.
C17_Witness ==
    /\ classification[1] = classification[2]
    /\ ~Falsy(classification[1])
    /\ DirExists(store0[1], <<Papers>>)
    /\ ~DirExists(store0[1], CategoryDir(classification[1]))
    /\ store0[2] = store0[1]
    /\ \A p \in Procs : ListedThenCreated(p)

====
